---- MODULE Spec2Model ----
(***************************************************************************)
(* One-time password share store of DrFlach/password_manager (Go backend). *)
(*                                                                         *)
(* The program state is the ShareStore (a map token -> *ShareData guarded  *)
(* by a sync.RWMutex), the ShareData objects the map points to, the wall   *)
(* clock, and the HTTP requests in flight.  Every ShareStore method takes  *)
(* and releases the mutex inside the call, so each method call is one      *)
(* atomic step; a handler is a sequence of such steps, and the steps of    *)
(* concurrent handlers (net/http runs one goroutine per request) and of    *)
(* the cleanup worker interleave freely.                                   *)
(*                                                                         *)
(* Time is counted in hours.  A request enters the model with its first    *)
(* step that touches shared state.                                         *)
(***************************************************************************)
EXTENDS Integers, Sequences, FiniteSets, Bags, TLC

\* ------------------------------------------------------------------ bounds
MaxConc == 2      \* requests being served at the same time
MaxObjs == 2      \* ShareData objects allocated in one behaviour
MaxTime == 2      \* the clock stops advancing here

\* ------------------------------------------------------- program constants
DefaultExpirationHours == 24

\* ------------------------------------------------------------ input domains
Tokens == {"tokA", "tokB"}          \* values generateSecureToken may return
SecretInputs == {"", "pw1"}        \* encrypted_password of a create request
ServiceInputs == {"", "Gmail"}      \* service_name
UserInputs == {"", "alice"}         \* username
HoursInputs == {1}                  \* expiration_hours
\* expiration_hours across the default and the range of time.Duration:
\* 2562047 h is the last whole hour below 2^63 ns
HoursInputsWide == {-1, 0, 1, 2562047, 2562048}
TickSteps == {1}
\* the decoded bodies of POST /api/share
ShareRequests ==
    [ EncryptedPassword : SecretInputs, ServiceName : ServiceInputs,
      Username : UserInputs, ExpirationHours : HoursInputs ]

NoTime == -1                        \* a nil *time.Time
NoObj == 0                          \* a nil *ShareData / key not in the map

VARIABLES
    mu,        \* ShareStore.mu: who holds the write lock, who holds a read lock
    now,       \* time.Now(), in hours
    heap,      \* the ShareData objects ever allocated; a pointer is an index
    shares,    \* ShareStore.shares: token -> pointer (NoObj: key absent)
    inflight,  \* the requests being served: a bag of handler activations
    out,       \* what the step just taken returned: a response, a sweep count
    fate,      \* history: how each object left the map ("live" while in it)
    served,    \* history: per object, the 200 redeem responses carrying it
    issued,    \* history: token -> the object last stored under it by Add
    consumed,  \* history: token -> the object last handed out by a redeem
    deleted    \* history: tokens a DELETE request answered 200 for

vars == <<mu, now, heap, shares, inflight, out, fate, served, issued, consumed, deleted>>

\* ------------------------------------------------------------- time.Time
\* t.After(u); the variant never reports a deadline as passed
MutAfterNever(t, u) == FALSE
\* the variant reports a deadline as passed at the deadline itself
MutAfterOrAt(t, u) == t >= u
After(t, u) == t > u

\* --------------------------------------------------- CreateShareHandler
\* the variant does not look at the username
MutMissingFieldsNoUser(secret, service, username) ==
    secret = "" \/ service = ""
\* the required-field validation
MissingFields(secret, service, username) ==
    secret = "" \/ service = "" \/ username = ""

\* the default expiration
ExpirationHours(h) == IF h <= 0 THEN DefaultExpirationHours ELSE h

\* ---- time.Duration: a signed 64-bit count of nanoseconds, held as its
\* two's-complement digits in base 256, least significant first
Limbs == 8
Base == 256
QuotientBits == 22                  \* 2^63 ns is less than 2^22 hours
\* time.Hour = 3 600 000 000 000 ns = 0x0346_30B8_A000
Hour == <<0, 160, 184, 48, 70, 3, 0, 0>>

RECURSIVE NegateFrom(_, _, _)
NegateFrom(a, k, carry) ==
    IF k > Limbs THEN <<>>
    ELSE <<(Base - 1 - a[k] + carry) % Base>>
         \o NegateFrom(a, k + 1, (Base - 1 - a[k] + carry) \div Base)
\* -a, wrapping
Negate(a) == NegateFrom(a, 1, 1)
Negative(a) == a[Limbs] >= Base \div 2

\* the digits of a natural number below 2^31
NatLimbs(n) ==
    <<n % Base, (n \div Base) % Base, (n \div (Base * Base)) % Base,
      (n \div (Base * Base * Base)) % Base, 0, 0, 0, 0>>
\* time.Duration(n): the conversion of an int
ToLimbs(n) == IF n >= 0 THEN NatLimbs(n) ELSE Negate(NatLimbs(-n))

RECURSIVE Column(_, _, _, _)
Column(a, b, k, i) ==
    IF i > k THEN 0 ELSE a[i] * b[k + 1 - i] + Column(a, b, k, i + 1)
RECURSIVE MulFrom(_, _, _, _)
MulFrom(a, b, k, carry) ==
    IF k > Limbs THEN <<>>
    ELSE <<(Column(a, b, k, 1) + carry) % Base>>
         \o MulFrom(a, b, k + 1, (Column(a, b, k, 1) + carry) \div Base)
\* a * b on int64: the product modulo 2^64
Mul64(a, b) == MulFrom(a, b, 1, 0)

RECURSIVE LeqFrom(_, _, _)
LeqFrom(a, b, k) ==
    IF k = 0 THEN TRUE
    ELSE IF a[k] # b[k] THEN a[k] < b[k]
    ELSE LeqFrom(a, b, k - 1)
\* a <= b for non-negative a and b
Leq(a, b) == LeqFrom(a, b, Limbs)

RECURSIVE DivFrom(_, _, _)
DivFrom(a, bit, q) ==
    IF bit < 0 THEN q
    ELSE IF Leq(Mul64(NatLimbs(q + 2^bit), Hour), a)
         THEN DivFrom(a, bit - 1, q + 2^bit)
         ELSE DivFrom(a, bit - 1, q)
\* the whole hours in the non-negative duration a
DivHour(a) == DivFrom(a, QuotientBits - 1, 0)

\* The clock of the model counts whole hours, and for a whole number n of
\* hours and any duration d, n hours > d exactly when n > floor(d / Hour):
\* a deadline is kept as the floor of its distance in hours.
FloorHours(d) ==
    IF Negative(d)
    THEN IF Mul64(NatLimbs(DivHour(Negate(d))), Hour) = Negate(d)
         THEN -DivHour(Negate(d))
         ELSE -DivHour(Negate(d)) - 1
    ELSE DivHour(d)

\* time.Duration(expirationHours) * time.Hour
HoursDuration(h) == Mul64(ToLimbs(h), Hour)

\* the hour counts a create request can ask a deadline for
HourCounts == HoursInputs \cup HoursInputsWide \cup {DefaultExpirationHours}
\* FloorHours(HoursDuration(h)), tabulated
DeadlineHours == [h \in HourCounts |-> FloorHours(HoursDuration(h))]

\* the variant multiplies in unbounded integers
MutAddHoursExact(t, h) == t + h
\* now.Add(time.Duration(expirationHours) * time.Hour)
AddHours(t, h) == t + DeadlineHours[h]

\* the variant stores the record without the secret
MutShareDataNoSecret(secret, service, username, hours, t) ==
    [ EncryptedPassword |-> "",
      ServiceName       |-> service,
      Username          |-> username,
      CreatedAt         |-> t,
      ExpiresAt         |-> AddHours(t, ExpirationHours(hours)),
      Viewed            |-> FALSE,
      ViewedAt          |-> NoTime ]
\* the ShareData literal built by the handler
NewShareData(secret, service, username, hours, t) ==
    [ EncryptedPassword |-> secret,
      ServiceName       |-> service,
      Username          |-> username,
      CreatedAt         |-> t,
      ExpiresAt         |-> AddHours(t, ExpirationHours(hours)),
      Viewed            |-> FALSE,
      ViewedAt          |-> NoTime ]

\* ----------------------------------------------------------- ShareStore
\* ---- sync.RWMutex.  w: the goroutine holding the write lock; r: the
\* goroutines holding a read lock; ann: the writer that has announced itself
\* in Lock() and waits for the readers to leave; rq: the readers blocked in
\* RLock() behind an announced or active writer.
Unlocked == [w |-> {}, r |-> {}, ann |-> {}, rq |-> {}]
\* Lock(): one writer at a time gets past the inner mutex and announces
\* itself; it enters when the last reader has left
CanLock(m) == m.ann = {} /\ m.w = {}
MuLock(m, i) == [m EXCEPT !.ann = @ \cup {i}]
CanEnter(m, i) == i \in m.ann /\ m.r = {}
MuEnter(m, i) == [m EXCEPT !.ann = @ \ {i}, !.w = @ \cup {i}]
\* RLock(): granted at once unless a writer is announced or active
MuRLock(m, i) ==
    IF m.ann = {} /\ m.w = {}
    THEN [m EXCEPT !.r = @ \cup {i}]
    ELSE [m EXCEPT !.rq = @ \cup {i}]
\* the variant returns without releasing
MutUnlockNothing(m, i) == m
\* defer s.mu.Unlock(): the blocked readers are let in as the writer leaves
MuUnlock(m, i) == [m EXCEPT !.w = @ \ {i}, !.r = @ \cup m.rq, !.rq = {}]
\* defer s.mu.RUnlock()
MuRUnlock(m, i) == [m EXCEPT !.r = @ \ {i}]

NewShareStore == [t \in Tokens |-> NoObj]

\* s.shares[token] = data
StoreAdd(s, token, ptr) == [s EXCEPT ![token] = ptr]

\* data, exists := s.shares[token]
StoreGet(s, token) == [data |-> s[token], exists |-> s[token] # NoObj]

\* the variant empties the map
MutDeleteAll(s, token) == [k \in Tokens |-> NoObj]
\* delete(s.shares, token); the variant leaves the key in the map
MutDeleteNothing(s, token) == s
StoreDelete(s, token) == [s EXCEPT ![token] = NoObj]

\* the variant also wipes the secret of the record it marks
MutMarkViewedWipe(h, s, token, t) ==
    IF s[token] # NoObj
    THEN [h EXCEPT ![s[token]].Viewed = TRUE, ![s[token]].ViewedAt = t,
                   ![s[token]].EncryptedPassword = ""]
    ELSE h
\* MarkViewed: the object under token, if any, gets Viewed and ViewedAt
StoreMarkViewed(h, s, token, t) ==
    IF s[token] # NoObj
    THEN [h EXCEPT ![s[token]].Viewed = TRUE, ![s[token]].ViewedAt = t]
    ELSE h

\* CleanupExpired: the keys the loop deletes, and the map it leaves
\* the variant also deletes the records whose deadline is the present instant
MutExpiredKeysAt(h, s, t) ==
    {k \in Tokens : s[k] # NoObj /\ t >= h[s[k]].ExpiresAt}
ExpiredKeys(h, s, t) ==
    {k \in Tokens : s[k] # NoObj /\ After(t, h[s[k]].ExpiresAt)}
\* the variant removes one expired key per call
MutCleanupOne(h, s, t) ==
    [k \in Tokens |->
        IF ExpiredKeys(h, s, t) # {} /\ k = CHOOSE e \in ExpiredKeys(h, s, t) : TRUE
        THEN NoObj ELSE s[k]]
StoreCleanupExpired(h, s, t) ==
    [k \in Tokens |-> IF k \in ExpiredKeys(h, s, t) THEN NoObj ELSE s[k]]

\* GetAll: a new map holding the same keys and the same pointers
StoreGetAll(s) == [k \in {t \in Tokens : s[t] # NoObj} |-> s[k]]

\* ------------------------------------------------------------- responses
ErrorRes(code, msg) == [code |-> code, error |-> msg]

\* ShareResponse, 200
CreatedRes(token, expires) ==
    [code |-> 200, error |-> "", Token |-> token, ExpiresAt |-> expires]

\* ShareRetrieveResponse, 200: built from the handler's pointer
RetrievedRes(d, viewedAt) ==
    [code |-> 200, error |-> "",
     EncryptedPassword |-> d.EncryptedPassword,
     ServiceName |-> d.ServiceName, Username |-> d.Username,
     CreatedAt |-> d.CreatedAt, ViewedAt |-> viewedAt]

\* the variant fills the details from the whole record
MutAlreadyViewedLeaks(d, viewedAt) ==
    [code |-> 410, error |-> "This share has already been viewed",
     EncryptedPassword |-> d.EncryptedPassword,
     ServiceName |-> d.ServiceName, Username |-> d.Username,
     CreatedAt |-> d.CreatedAt, ViewedAt |-> viewedAt]
\* 410 with "details": a ShareRetrieveResponse whose EncryptedPassword is ""
AlreadyViewedRes(d, viewedAt) ==
    [code |-> 410, error |-> "This share has already been viewed",
     EncryptedPassword |-> "",
     ServiceName |-> d.ServiceName, Username |-> d.Username,
     CreatedAt |-> d.CreatedAt, ViewedAt |-> viewedAt]

DeletedRes == [code |-> 200, error |-> "", message |-> "Share deleted successfully"]

\* -------------------------------------------------------------- requests
\* What the history knew about the request's token when the request began:
\* whether the record last stored under it (the one a lookup finds, if it finds
\* any) was past its deadline (late), whether
\* the map held an unviewed, unexpired record under it (fresh), how the record
\* last stored under it left the map (lastFate), the record a redeem had handed
\* out under it (cons), whether a DELETE had been answered 200 for it (pdel).
Ghost(token) ==
    [ late     |-> issued[token] # NoObj /\ now > heap[issued[token]].ExpiresAt,
      fresh    |-> shares[token] # NoObj /\ ~heap[shares[token]].Viewed
                     /\ now <= heap[shares[token]].ExpiresAt,
      lastFate |-> IF issued[token] = NoObj THEN "none" ELSE fate[issued[token]],
      cons     |-> consumed[token],
      pdel     |-> token \in deleted ]

NoGhost ==
    [late |-> FALSE, fresh |-> FALSE, lastFate |-> "none", cons |-> NoObj, pdel |-> FALSE]

Req(kind, token, pc, ptr, g) ==
    [ kind |-> kind, tok |-> token, pc |-> pc,
      ptr |-> ptr,          \* the handler's shareData pointer
      seenV |-> FALSE,      \* Viewed as published to this goroutine by its last lock
      seenVA |-> NoTime,    \* ViewedAt likewise
      g |-> g ]

\* The step just taken answered request r with response res.
Answer(r, res) == [ev |-> "response", req |-> r, res |-> res]
Swept(count) == [ev |-> "sweep", count |-> count]
NoOut == [ev |-> "none"]
\* The step just taken returned (or the caller still holds and has changed)
\* the map GetAll built.
Got(copy) == [ev |-> "getall", copy |-> copy]

Running == BagToSet(inflight)
Start(r) == inflight (+) SetToBag({r})
Finish(r) == inflight (-) SetToBag({r})
Continue(r, r2) == (inflight (-) SetToBag({r})) (+) SetToBag({r2})

Objs == 1..Len(heap)

SetFate(f, o, v) == IF o = NoObj THEN f ELSE [f EXCEPT ![o] = v]

\* An unsynchronised read of a field MarkViewed writes under the lock: the
\* reader is guaranteed the value published by its own last lock operation
\* and may observe any later write.
RacyRead(seen, current) == {seen, current}

Init ==
    /\ mu = Unlocked
    /\ now = 0
    /\ heap = <<>>
    /\ shares = NewShareStore
    /\ inflight = EmptyBag
    /\ out = NoOut
    /\ fate = <<>>
    /\ served = <<>>
    /\ issued = [t \in Tokens |-> NoObj]
    /\ consumed = [t \in Tokens |-> NoObj]
    /\ deleted = {}

\* -------------------------------------------------------- POST /api/share
\* Decode and validate: 400 when a required field is empty.
CreateInvalid(req) ==
    /\ BagCardinality(inflight) < MaxConc
    /\ MissingFields(req.EncryptedPassword, req.ServiceName, req.Username)
    /\ out' = Answer(Req("create", "", "done", NoObj, NoGhost),
                     ErrorRes(400, "Missing required fields"))
    /\ UNCHANGED <<mu, now, heap, shares, inflight, fate, served, issued, consumed, deleted>>

\* the variant ignores the error and goes on with a fixed handle
MutGenFailFallback(req) ==
    /\ BagCardinality(inflight) < MaxConc
    /\ ~MissingFields(req.EncryptedPassword, req.ServiceName, req.Username)
    /\ Len(heap) < MaxObjs
    /\ heap' = Append(heap, NewShareData(req.EncryptedPassword, req.ServiceName,
                                         req.Username, req.ExpirationHours, now))
    /\ fate' = Append(fate, "new")
    /\ served' = Append(served, 0)
    /\ inflight' = Start(Req("create", "tokA", "add", Len(heap) + 1, Ghost("tokA"))
                          @@ [body |-> req])
    /\ out' = NoOut
    /\ UNCHANGED <<mu, now, shares, issued, consumed, deleted>>

\* generateSecureToken returned an error: 500.
CreateGenFail(req) ==
    /\ BagCardinality(inflight) < MaxConc
    /\ ~MissingFields(req.EncryptedPassword, req.ServiceName, req.Username)
    /\ out' = Answer(Req("create", "", "done", NoObj, NoGhost),
                     ErrorRes(500, "Internal server error"))
    /\ UNCHANGED <<mu, now, heap, shares, inflight, fate, served, issued, consumed, deleted>>

\* The token is generated, the clock read and the ShareData built.
CreateBegin(req, token) ==
    /\ BagCardinality(inflight) < MaxConc
    /\ ~MissingFields(req.EncryptedPassword, req.ServiceName, req.Username)
    /\ Len(heap) < MaxObjs
    /\ heap' = Append(heap, NewShareData(req.EncryptedPassword, req.ServiceName,
                                         req.Username, req.ExpirationHours, now))
    /\ fate' = Append(fate, "new")
    /\ served' = Append(served, 0)
    /\ inflight' = Start(Req("create", token, "add", Len(heap) + 1, Ghost(token))
                          @@ [body |-> req])
    /\ out' = NoOut
    /\ UNCHANGED <<mu, now, shares, issued, consumed, deleted>>

\* store.Add(token, shareData), then the response.
CreateAdd(r) ==
    /\ r.kind = "create" /\ r.pc = "add"
    /\ shares' = StoreAdd(shares, r.tok, r.ptr)
    /\ inflight' = Finish(r)
    /\ out' = Answer(r, CreatedRes(r.tok, heap[r.ptr].ExpiresAt))
    /\ fate' = LET old == shares[r.tok]
                   f1 == IF shares'[r.tok] = old THEN fate
                         ELSE SetFate(fate, old, "overwritten")
               IN IF shares'[r.tok] = r.ptr THEN SetFate(f1, r.ptr, "live") ELSE f1
    /\ issued' = [issued EXCEPT ![r.tok] = shares'[r.tok]]
    /\ UNCHANGED <<mu, now, heap, served, consumed, deleted>>

\* --------------------------------------------------- GET /api/share/:token
\* shareData, exists := store.Get(token); 404 when absent.
RedeemGet(token) ==
    /\ BagCardinality(inflight) < MaxConc
    /\ LET got == StoreGet(shares, token) IN
       IF ~got.exists
       THEN /\ out' = Answer(Req("redeem", token, "done", NoObj, Ghost(token)),
                             ErrorRes(404, "Share not found or expired"))
            /\ UNCHANGED inflight
       ELSE /\ inflight' = Start([Req("redeem", token, "chkexp", got.data, Ghost(token))
                                    EXCEPT !.seenV = heap[got.data].Viewed,
                                           !.seenVA = heap[got.data].ViewedAt])
            /\ out' = NoOut
    /\ UNCHANGED <<mu, now, heap, shares, fate, served, issued, consumed, deleted>>

\* if time.Now().After(shareData.ExpiresAt)
RedeemCheckExpired(r) ==
    /\ r.kind = "redeem" /\ r.pc = "chkexp"
    /\ inflight' = Continue(r, [r EXCEPT !.pc =
                      IF After(now, heap[r.ptr].ExpiresAt) THEN "expdel" ELSE "chkviewed"])
    /\ out' = NoOut
    /\ UNCHANGED <<mu, now, heap, shares, fate, served, issued, consumed, deleted>>

\* store.Delete(token); 410 "Share has expired"
RedeemExpiredDelete(r) ==
    /\ r.kind = "redeem" /\ r.pc = "expdel"
    /\ shares' = StoreDelete(shares, r.tok)
    /\ fate' = IF shares'[r.tok] = NoObj
               THEN SetFate(fate, shares[r.tok], "expired") ELSE fate
    /\ inflight' = Finish(r)
    /\ out' = Answer(r, ErrorRes(410, "Share has expired"))
    /\ UNCHANGED <<mu, now, heap, served, issued, consumed, deleted>>

\* if shareData.Viewed { 410 with the metadata }: reads outside the lock
RedeemCheckViewed(r) ==
    /\ r.kind = "redeem" /\ r.pc = "chkviewed"
    /\ \E v \in RacyRead(r.seenV, heap[r.ptr].Viewed) :
         IF v
         THEN \E va \in RacyRead(r.seenVA, heap[r.ptr].ViewedAt) :
                /\ inflight' = Finish(r)
                /\ out' = Answer(r, AlreadyViewedRes(heap[r.ptr], va))
         ELSE /\ inflight' = Continue(r, [r EXCEPT !.pc = "mark"])
              /\ out' = NoOut
    /\ UNCHANGED <<mu, now, heap, shares, fate, served, issued, consumed, deleted>>

\* store.MarkViewed(token)
RedeemMarkViewed(r) ==
    /\ r.kind = "redeem" /\ r.pc = "mark"
    /\ heap' = StoreMarkViewed(heap, shares, r.tok, now)
    /\ inflight' = Continue(r, [r EXCEPT !.pc = "del",
                                         !.seenV = heap'[r.ptr].Viewed,
                                         !.seenVA = heap'[r.ptr].ViewedAt])
    /\ out' = NoOut
    /\ UNCHANGED <<mu, now, shares, fate, served, issued, consumed, deleted>>

\* response := ShareRetrieveResponse{...}; store.Delete(token); 200
RedeemDelete(r) ==
    /\ r.kind = "redeem" /\ r.pc = "del"
    /\ \E va \in RacyRead(r.seenVA, heap[r.ptr].ViewedAt) :
         out' = Answer(r, RetrievedRes(heap[r.ptr], va))
    /\ inflight' = Finish(r)
    /\ shares' = StoreDelete(shares, r.tok)
    /\ fate' = IF shares'[r.tok] = NoObj
               THEN SetFate(fate, shares[r.tok], "redeemed") ELSE fate
    /\ served' = [served EXCEPT ![r.ptr] = @ + 1]
    /\ consumed' = [consumed EXCEPT ![r.tok] = r.ptr]
    /\ UNCHANGED <<mu, now, heap, issued, deleted>>

\* ------------------------------------------------ DELETE /api/share/:token
\* _, exists := store.Get(token); 404 when absent.
DeleteGet(token) ==
    /\ BagCardinality(inflight) < MaxConc
    /\ IF ~StoreGet(shares, token).exists
       THEN /\ out' = Answer(Req("delete", token, "done", NoObj, Ghost(token)),
                             ErrorRes(404, "Share not found"))
            /\ UNCHANGED inflight
       ELSE /\ inflight' = Start(Req("delete", token, "ddel",
                                     StoreGet(shares, token).data, Ghost(token)))
            /\ out' = NoOut
    /\ UNCHANGED <<mu, now, heap, shares, fate, served, issued, consumed, deleted>>

\* store.Delete(token); 200
DeleteDelete(r) ==
    /\ r.kind = "delete" /\ r.pc = "ddel"
    /\ shares' = StoreDelete(shares, r.tok)
    /\ fate' = IF shares'[r.tok] = NoObj
               THEN SetFate(fate, shares[r.tok], "deleted") ELSE fate
    /\ inflight' = Finish(r)
    /\ out' = Answer(r, DeletedRes)
    /\ deleted' = deleted \cup {r.tok}
    /\ UNCHANGED <<mu, now, heap, served, issued, consumed>>

\* ------------------------------------------------------------ the sweeper
\* cleanupWorker: one tick of the ticker, one CleanupExpired call.
CleanupTick ==
    /\ shares' = StoreCleanupExpired(heap, shares, now)
    /\ out' = Swept(Cardinality(ExpiredKeys(heap, shares, now)))
    /\ fate' = [o \in Objs |->
                  IF \E k \in Tokens : shares[k] = o /\ shares'[k] = NoObj
                  THEN "swept" ELSE fate[o]]
    /\ UNCHANGED <<mu, now, heap, inflight, served, issued, consumed, deleted>>

\* -------------------------------------------------------------- the clock
Tick(d) ==
    /\ now + d <= MaxTime
    /\ now' = now + d
    /\ out' = NoOut
    /\ UNCHANGED <<mu, heap, shares, inflight, fate, served, issued, consumed, deleted>>

Next ==
    \/ \E req \in ShareRequests : CreateInvalid(req)
    \/ \E req \in ShareRequests : CreateGenFail(req)
    \/ \E req \in ShareRequests, token \in Tokens : CreateBegin(req, token)
    \/ \E r \in Running : CreateAdd(r)
    \/ \E token \in Tokens : RedeemGet(token)
    \/ \E r \in Running : RedeemCheckExpired(r)
    \/ \E r \in Running : RedeemExpiredDelete(r)
    \/ \E r \in Running : RedeemCheckViewed(r)
    \/ \E r \in Running : RedeemMarkViewed(r)
    \/ \E r \in Running : RedeemDelete(r)
    \/ \E token \in Tokens : DeleteGet(token)
    \/ \E r \in Running : DeleteDelete(r)
    \/ CleanupTick
    \/ \E d \in TickSteps : Tick(d)

Spec == Init /\ [][Next]_vars

\* ---- POST /api/share over the whole range of expiration_hours, with the
\* clock and the sweeper
ShareRequestsWide ==
    [ EncryptedPassword : SecretInputs, ServiceName : ServiceInputs,
      Username : UserInputs, ExpirationHours : HoursInputsWide ]

NextCreate ==
    \/ \E req \in ShareRequestsWide : CreateInvalid(req)
    \/ \E req \in ShareRequestsWide : CreateGenFail(req)
    \/ \E req \in ShareRequestsWide, token \in Tokens : CreateBegin(req, token)
    \/ \E r \in Running : CreateAdd(r)
    \/ CleanupTick
    \/ \E d \in TickSteps : Tick(d)

SpecCreate == Init /\ [][NextCreate]_vars

\* ---- all three routes and the sweeper with two different secrets, within
\* one hour (the clock stands still: no deadline passes)
SecretInputsTwo == {"", "pw1", "pw2"}
ShareRequestsTwo ==
    [ EncryptedPassword : SecretInputsTwo, ServiceName : ServiceInputs,
      Username : UserInputs, ExpirationHours : HoursInputs ]

NextPayload ==
    \/ \E req \in ShareRequestsTwo : CreateInvalid(req)
    \/ \E req \in ShareRequestsTwo : CreateGenFail(req)
    \/ \E req \in ShareRequestsTwo, token \in Tokens : CreateBegin(req, token)
    \/ \E r \in Running : CreateAdd(r)
    \/ \E token \in Tokens : RedeemGet(token)
    \/ \E r \in Running : RedeemCheckExpired(r)
    \/ \E r \in Running : RedeemCheckViewed(r)
    \/ \E r \in Running : RedeemMarkViewed(r)
    \/ \E r \in Running : RedeemDelete(r)
    \/ \E token \in Tokens : DeleteGet(token)
    \/ \E r \in Running : DeleteDelete(r)
    \/ CleanupTick

SpecPayload == Init /\ [][NextPayload]_vars

\* ---- ShareStore.GetAll and what its caller can do with the map[string]*ShareData
\* it returns
GetAll ==
    /\ out' = Got(StoreGetAll(shares))
    /\ UNCHANGED <<mu, now, heap, shares, inflight, fate, served, issued, consumed, deleted>>

\* delete(all, k)
CopyDeleteKey(k) ==
    /\ out.ev = "getall" /\ k \in DOMAIN out.copy
    /\ out' = Got([j \in DOMAIN out.copy \ {k} |-> out.copy[j]])
    /\ UNCHANGED <<mu, now, heap, shares, inflight, fate, served, issued, consumed, deleted>>

\* all[k] = all[j]
CopyPutKey(k, j) ==
    /\ out.ev = "getall" /\ j \in DOMAIN out.copy /\ k \notin DOMAIN out.copy
    /\ out' = Got([i \in DOMAIN out.copy \cup {k} |-> out.copy[j]])
    /\ UNCHANGED <<mu, now, heap, shares, inflight, fate, served, issued, consumed, deleted>>

\* all[k].Viewed = true
CopySetViewed(k) ==
    /\ out.ev = "getall" /\ k \in DOMAIN out.copy
    /\ ~heap[out.copy[k]].Viewed
    /\ heap' = [heap EXCEPT ![out.copy[k]].Viewed = TRUE]
    /\ UNCHANGED <<mu, now, shares, inflight, out, fate, served, issued, consumed, deleted>>

\* all[k].EncryptedPassword = secret
CopySetSecret(k, secret) ==
    /\ out.ev = "getall" /\ k \in DOMAIN out.copy
    /\ heap[out.copy[k]].EncryptedPassword # secret
    /\ heap' = [heap EXCEPT ![out.copy[k]].EncryptedPassword = secret]
    /\ UNCHANGED <<mu, now, shares, inflight, out, fate, served, issued, consumed, deleted>>

NextGetAll ==
    \/ \E req \in ShareRequests, token \in Tokens : CreateBegin(req, token)
    \/ \E r \in Running : CreateAdd(r)
    \/ \E token \in Tokens : RedeemGet(token)
    \/ \E r \in Running : RedeemCheckExpired(r)
    \/ \E r \in Running : RedeemCheckViewed(r)
    \/ \E r \in Running : RedeemMarkViewed(r)
    \/ \E r \in Running : RedeemDelete(r)
    \/ GetAll
    \/ \E k \in Tokens : CopyDeleteKey(k)
    \/ \E k \in Tokens, j \in Tokens : CopyPutKey(k, j)
    \/ \E k \in Tokens : CopySetViewed(k)
    \/ \E k \in Tokens, secret \in SecretInputsTwo : CopySetSecret(k, secret)

SpecGetAll == Init /\ [][NextGetAll]_vars

\* ---- the service with its scheduling: the ticker of cleanupWorker fires
\* every interval for as long as the process runs, and the clock advances
Fairness ==
    /\ WF_vars(CleanupTick)
    /\ WF_vars(\E d \in TickSteps : Tick(d))

SpecLive == Init /\ [][Next]_vars /\ Fairness

\* ================================================================ claims
\* The step just taken answered a GET /api/share/:token request.
RedeemAnswered == out.ev = "response" /\ out.req.kind = "redeem"
\* ... with the payload (200 and the secret)
RedeemPaid == RedeemAnswered /\ out.res.code = 200
\* Redeem requests on token that are still being served.
RedeemsRunning(token) == {r \in Running : r.kind = "redeem" /\ r.tok = token}

\* C1: however many redeem calls race on a handle, the payload of its record
\* is returned by at most one of them, and every other answer is a 404 or a 410
\* that carries no secret.
C1_ExactlyOnePayload ==
    /\ \A o \in Objs : served[o] <= 1
    /\ (RedeemAnswered /\ out.res.code # 200) =>
          /\ out.res.code \in {404, 410}
          /\ (out.res.error = "This share has already been viewed" =>
                out.res.EncryptedPassword = "")

\* A step of a store operation on r's token taken by anyone but r itself.
OtherStoreStep(r) ==
    \/ RedeemGet(r.tok)
    \/ DeleteGet(r.tok)
    \/ \E q \in Running :
         /\ q.tok = r.tok
         /\ q # r \/ CopiesIn(r, inflight) > 1
         /\ \/ CreateAdd(q)
            \/ RedeemExpiredDelete(q)
            \/ RedeemMarkViewed(q)
            \/ RedeemDelete(q)
            \/ DeleteDelete(q)
    \/ CleanupTick /\ shares'[r.tok] # shares[r.tok]

\* C2: redeem is atomic: between a redeem's lookup of the record and its
\* removal of the record no other store operation on the same handle takes a
\* step.
C2_RedeemAtomic ==
    [][\A r \in Running :
          (r.kind = "redeem" /\ r.pc \in {"chkexp", "chkviewed", "mark", "del", "expdel"})
             => ~OtherStoreStep(r)]_vars

\* C3: a record removed from the store by a DELETE answered 200 or by the
\* sweeper is never handed out by a redeem afterwards, not even by one that
\* had looked it up before the removal.
C3_NoPayloadAfterRemoval ==
    RedeemPaid => fate[out.req.ptr] \notin {"deleted", "swept"}

\* C4: once a redeem of a handle has returned the payload, no redeem of that
\* handle that starts later returns a payload.
C4_ConsumeOnce ==
    (RedeemAnswered /\ out.req.g.cons # NoObj) => out.res.code # 200

\* C5: after a redeem of a handle has returned the payload, a further redeem of
\* the handle before the deadline is answered 410 AlreadyViewed with the
\* record's service name and username and without the secret.
C5_SecondRedeemAlreadyViewed ==
    (RedeemAnswered /\ out.req.g.cons # NoObj
                    /\ now <= heap[out.req.g.cons].ExpiresAt) =>
        /\ out.res.code = 410
        /\ out.res.error = "This share has already been viewed"
        /\ out.res.EncryptedPassword = ""
        /\ out.res.ServiceName = heap[out.req.g.cons].ServiceName
        /\ out.res.Username = heap[out.req.g.cons].Username

\* C6: when the last of the redeem calls issued against a fresh, unexpired
\* handle completes, the store holds no record under that handle.
C6_NoRecordAfterRedeems ==
    (RedeemAnswered /\ out.req.g.fresh /\ RedeemsRunning(out.req.tok) = {}) =>
        shares[out.req.tok] = NoObj

\* C7 as claimed: a redeem made after the deadline of a record that was never
\* redeemed or deleted is answered 410 Expired and leaves the handle absent,
\* also when the sweeper has already run.
C7_LateRedeemAlwaysExpired ==
    (RedeemAnswered /\ out.req.g.late
                    /\ out.req.g.lastFate \notin {"redeemed", "deleted", "overwritten"}) =>
        /\ out.res = ErrorRes(410, "Share has expired")
        /\ shares[out.req.tok] = NoObj

\* C7 as amended: a redeem whose lookup finds a record past its deadline is
\* answered 410 Expired; a redeem whose lookup finds no record (the sweeper or
\* an earlier redeem has removed it) is answered 404 NotFound; neither carries
\* a payload and the handle is absent from the store when the call completes.
C7_LateRedeemExpiredOrNotFound ==
    /\ (RedeemAnswered /\ out.req.ptr # NoObj /\ out.req.g.late) =>
          /\ out.res = ErrorRes(410, "Share has expired")
          /\ shares[out.req.tok] = NoObj
    /\ (RedeemAnswered /\ out.req.ptr = NoObj) =>
          /\ out.res = ErrorRes(404, "Share not found or expired")
          /\ shares[out.req.tok] = NoObj

\* A redeem that began after the deadline found the record still in the map,
\* answered Expired and removed it.
C7_Witness ==
    /\ RedeemAnswered /\ out.req.ptr # NoObj /\ out.req.g.late
    /\ out.res.code = 410
    /\ fate[out.req.ptr] = "expired"

\* C8: a redeem that starts strictly after the deadline of the record it looks
\* up never returns the payload, whatever the sweeper has or has not done.
C8_ExpiryEnforcedByRedeem ==
    RedeemPaid => ~out.req.g.late

\* A redeem that began after the deadline was refused although no sweep had
\* removed anything.
C8_Witness ==
    /\ RedeemAnswered /\ out.req.ptr # NoObj /\ out.req.g.late
    /\ out.res.code # 200
    /\ \A o \in Objs : fate[o] # "swept"

\* C9: a redeem issued after a DELETE of the handle was answered 200 is
\* answered 404 NotFound.
C9_RedeemAfterDeleteNotFound ==
    (RedeemAnswered /\ out.req.g.pdel) =>
        out.res = ErrorRes(404, "Share not found or expired")

\* C10: create never overwrites: an Add under a key already in the map leaves
\* the record stored under that key in place.
C10_CreateNeverOverwrites ==
    [][\A r \in Running :
          (CreateAdd(r) /\ shares[r.tok] # NoObj) => shares'[r.tok] = shares[r.tok]]_vars

\* C11: the handles returned by successful create calls are pairwise distinct:
\* a create never answers with a handle that an earlier create has answered
\* with, whatever values the generator returns.
C11_HandlesPairwiseDistinct ==
    [][\A r \in Running : CreateAdd(r) => issued[r.tok] = NoObj]_vars

\* C12: a sweep at time now removes exactly the records whose expires_at is
\* before now, leaves every other record in the store, alters no field of any
\* record, and returns the number of records it removed.
C12_SweepRemovesExactlyExpired ==
    [][out'.ev = "sweep" =>
          /\ \A k \in Tokens :
                shares'[k] = IF shares[k] # NoObj /\ heap[shares[k]].ExpiresAt < now
                             THEN NoObj ELSE shares[k]
          /\ heap' = heap
          /\ out'.count = Cardinality({k \in Tokens : shares[k] # NoObj
                                                      /\ shares'[k] = NoObj})]_vars

\* A sweep removed one record and kept another whose deadline is the very
\* instant of the sweep.
C12_Witness ==
    /\ out.ev = "sweep" /\ out.count = 1
    /\ \E o \in Objs : fate[o] = "swept"
    /\ \E k \in Tokens : shares[k] # NoObj /\ heap[shares[k]].ExpiresAt = now

\* The step just taken answered a POST /api/share request.
CreateAnswered == out.ev = "response" /\ out.req.kind = "create"
\* ... with 200 and a handle
CreatePaid == CreateAnswered /\ out.res.code = 200

\* C13: for every accepted create request the stored and the returned
\* expires_at are created_at + 24 h when expiration_hours is zero or negative,
\* and created_at + expiration_hours h when it is positive.
C13_ExpiresAtFromHours ==
    CreatePaid =>
        /\ out.res.ExpiresAt = heap[out.req.ptr].ExpiresAt
        /\ heap[out.req.ptr].ExpiresAt =
              heap[out.req.ptr].CreatedAt
                + (IF out.req.body.ExpirationHours <= 0
                   THEN 24 ELSE out.req.body.ExpirationHours)

\* C14: when a create answers 200, the store holds under the returned handle
\* the record the handler built: not viewed, ViewedAt unset, with exactly the
\* secret, service name and username of the request, and the expires_at of the
\* response is the expires_at of that record.
C14_CreateStoresRequest ==
    CreatePaid =>
        /\ shares[out.res.Token] = out.req.ptr
        /\ heap[shares[out.res.Token]].Viewed = FALSE
        /\ heap[shares[out.res.Token]].ViewedAt = NoTime
        /\ heap[shares[out.res.Token]].EncryptedPassword = out.req.body.EncryptedPassword
        /\ heap[shares[out.res.Token]].ServiceName = out.req.body.ServiceName
        /\ heap[shares[out.res.Token]].Username = out.req.body.Username
        /\ out.res.ExpiresAt = heap[shares[out.res.Token]].ExpiresAt

\* A create of the secret pw2 answered 200 while the store also held a record
\* with the secret pw1.
C14_Witness ==
    /\ CreatePaid /\ out.req.body.EncryptedPassword = "pw2"
    /\ \E k \in Tokens : /\ shares[k] # NoObj
                         /\ heap[shares[k]].EncryptedPassword = "pw1"

\* C15: a create request whose secret, service name or username is empty is
\* answered 400 in one step that generates no handle, allocates no record and
\* leaves the store as it was.
C15_MissingFieldRejected ==
    [][\A req \in ShareRequests :
          ( /\ req.EncryptedPassword = "" \/ req.ServiceName = "" \/ req.Username = ""
            /\ \/ CreateInvalid(req)
               \/ CreateGenFail(req)
               \/ \E token \in Tokens : CreateBegin(req, token) )
          => /\ out'.ev = "response" /\ out'.req.kind = "create"
             /\ out'.res = ErrorRes(400, "Missing required fields")
             /\ out'.req.tok = "" /\ out'.req.ptr = NoObj
             /\ UNCHANGED <<shares, heap, inflight, issued>>]_vars

\* A create was answered 400 while the store held a record.
C15_Witness ==
    /\ CreateAnswered /\ out.res.code = 400
    /\ \E k \in Tokens : shares[k] # NoObj

\* C16: when the random source fails, the create is answered 500 in one step
\* that inserts no record and leaves the store as it was; and every key a
\* create stores a record under is a value the generator returned.
C16_GenerationFailure ==
    [][/\ \A req \in ShareRequests :
            CreateGenFail(req) =>
               /\ out'.ev = "response" /\ out'.req.kind = "create"
               /\ out'.res = ErrorRes(500, "Internal server error")
               /\ out'.req.tok = "" /\ out'.req.ptr = NoObj
               /\ UNCHANGED <<shares, heap, inflight, issued>>
       /\ \A r \in Running :
            CreateAdd(r) => r.tok \in Tokens /\ out'.res.Token = r.tok]_vars

\* A create was answered 500 while the store held a record.
C16_Witness ==
    /\ CreateAnswered /\ out.res.code = 500
    /\ \E k \in Tokens : shares[k] # NoObj

\* The step just taken answered a DELETE /api/share/:token request.
DeleteAnswered == out.ev = "response" /\ out.req.kind = "delete"

\* C17: a delete answers 200 exactly when its lookup found a record under the
\* handle, whatever the state of that record, and then the handle is absent and
\* every other key is as it was; it answers 404 when the lookup found none,
\* and then the store is as it was; deleting again changes nothing more; no
\* field of any record is written.
C17_DeleteRemoves ==
    [][(out'.ev = "response" /\ out'.req.kind = "delete") =>
          /\ out'.res \in {DeletedRes, ErrorRes(404, "Share not found")}
          /\ out'.res.code = 200 <=> out'.req.ptr # NoObj
          /\ out'.res.code = 404 => shares' = shares /\ shares[out'.req.tok] = NoObj
          /\ out'.res.code = 200 =>
                shares' = [k \in Tokens |-> IF k = out'.req.tok THEN NoObj ELSE shares[k]]
          /\ StoreDelete(shares', out'.req.tok) = shares'
          /\ heap' = heap]_vars

\* A delete that began after the deadline of a record the sweeper had not yet
\* removed found it, removed it and answered 200.
C17_Witness ==
    /\ DeleteAnswered /\ out.res.code = 200
    /\ out.req.g.late /\ fate[out.req.ptr] = "deleted"

\* C18: delete is atomic: the existence check and the removal are one step, so
\* a delete that answers 200 removes the very record its check found, and of
\* the deletes racing on a handle only one answers 200.
C18_DeleteAtomic ==
    [][(out'.ev = "response" /\ out'.req.kind = "delete" /\ out'.res.code = 200)
          => shares[out'.req.tok] = out'.req.ptr]_vars

\* C19: no step alters the secret, service name, username, created_at or
\* expires_at of a record once the create has built it, and a redeem that
\* answers 200 returns the secret, service name, username and created_at of
\* the record it looked up under the handle: the values of the create that
\* stored it.
C19_RoundTrip ==
    [][/\ \A o \in Objs :
            /\ heap'[o].EncryptedPassword = heap[o].EncryptedPassword
            /\ heap'[o].ServiceName = heap[o].ServiceName
            /\ heap'[o].Username = heap[o].Username
            /\ heap'[o].CreatedAt = heap[o].CreatedAt
            /\ heap'[o].ExpiresAt = heap[o].ExpiresAt
       /\ \A r \in Running :
            CreateAdd(r) =>
               /\ heap[r.ptr].EncryptedPassword = r.body.EncryptedPassword
               /\ heap[r.ptr].ServiceName = r.body.ServiceName
               /\ heap[r.ptr].Username = r.body.Username
       /\ (out'.ev = "response" /\ out'.req.kind = "redeem" /\ out'.res.code = 200) =>
            /\ out'.res.EncryptedPassword = heap[out'.req.ptr].EncryptedPassword
            /\ out'.res.ServiceName = heap[out'.req.ptr].ServiceName
            /\ out'.res.Username = heap[out'.req.ptr].Username
            /\ out'.res.CreatedAt = heap[out'.req.ptr].CreatedAt]_vars

\* A redeem returned the secret pw2 of a record marked viewed while another
\* record held the secret pw1.
C19_Witness ==
    /\ RedeemPaid /\ out.res.EncryptedPassword = "pw2"
    /\ heap[out.req.ptr].Viewed
    /\ \E o \in Objs : heap[o].EncryptedPassword = "pw1"

\* C20: the failure responses do not depend on the secret.  A redeem that
\* does not answer 200 answers with a fixed 404, a fixed 410 "expired", or the
\* 410 "already viewed" body, and that body is what the handler would have
\* built had the record held any other secret: service name, username,
\* created_at and viewed_at only, the secret field empty.  Every delete
\* response is one of two fixed bodies.
C20_FailuresHideSecret ==
    /\ (RedeemAnswered /\ out.res.code # 200) =>
          \/ out.res = ErrorRes(404, "Share not found or expired")
          \/ out.res = ErrorRes(410, "Share has expired")
          \/ /\ \A secret \in SecretInputsTwo :
                   out.res = AlreadyViewedRes(
                                [heap[out.req.ptr] EXCEPT !.EncryptedPassword = secret],
                                out.res.ViewedAt)
             /\ out.res.EncryptedPassword = ""
             /\ DOMAIN out.res = {"code", "error", "EncryptedPassword", "ServiceName",
                                  "Username", "CreatedAt", "ViewedAt"}
    /\ DeleteAnswered =>
          out.res \in {DeletedRes, ErrorRes(404, "Share not found")}

\* A redeem of a record holding the secret pw1 was answered 410 "already
\* viewed".
C20_Witness ==
    /\ RedeemAnswered /\ out.res.code = 410
    /\ out.res.error = "This share has already been viewed"
    /\ heap[out.req.ptr].EncryptedPassword = "pw1"

\* C21: a record whose viewed_at is set has viewed_at >= created_at, and
\* MarkViewed never marks a record that is already marked: the transition to
\* Viewed happens at most once, however the redeem calls interleave.
C21_ViewedOnce ==
    [][/\ \A o \in Objs :
            heap'[o].ViewedAt # NoTime => heap'[o].ViewedAt >= heap'[o].CreatedAt
       /\ \A r \in Running :
            (RedeemMarkViewed(r) /\ shares[r.tok] # NoObj)
               => ~heap[shares[r.tok]].Viewed]_vars

\* Object o is in the map.
Stored(o) == \E k \in Tokens : shares[k] = o

\* C23: with the clock advancing and the sweeper's tick scheduled, every record
\* inserted is eventually absent from the store, whether or not a redeem or a
\* delete is ever made for it (stated for the records whose deadline the
\* bounded clock can pass).
C23_EventuallyReclaimed ==
    \A o \in 1..MaxObjs :
        (o \in Objs /\ Stored(o) /\ heap[o].ExpiresAt < MaxTime) ~> ~Stored(o)

\* The sweeper removed a record while no redeem had returned a payload and no
\* delete had been answered 200.
C23_Witness ==
    /\ \E o \in Objs : fate[o] = "swept"
    /\ deleted = {}
    /\ \A k \in Tokens : consumed[k] = NoObj

\* C22: the sweeper, started once when the service starts, is stopped at some
\* point and stays stopped: from then on no further CleanupExpired call can
\* be made.
C22_SweeperStops == <>[](~ENABLED CleanupTick)

\* C24: Deleted is final: a handle that was issued and has become absent from
\* the store stays absent in every later state, and a redeem or a delete that
\* begins while it is absent is answered 404.
C24_DeletedIsFinal ==
    [][/\ \A k \in Tokens :
            (issued[k] # NoObj /\ shares[k] = NoObj) => shares'[k] = NoObj
       /\ ( /\ out'.ev = "response" /\ out'.req.kind \in {"redeem", "delete"}
            /\ out'.req.g.lastFate \in {"redeemed", "deleted", "swept", "expired"} )
          => out'.res.code = 404]_vars

\* C25: every access to a field of a stored record happens under the mutex: no
\* state is reachable in which one handler is about to read Viewed or ViewedAt
\* of a record outside the lock while the MarkViewed of another request is
\* about to write that record.
C25_NoUnsyncedAccess ==
    ~\E r \in Running, q \in Running :
        /\ r.kind = "redeem" /\ r.pc \in {"chkviewed", "del"}
        /\ q.kind = "redeem" /\ q.pc = "mark"
        /\ shares[q.tok] = r.ptr

\* The caller of GetAll changes something through the map it was given.
CopyStep ==
    \/ \E k \in Tokens : CopyDeleteKey(k)
    \/ \E k \in Tokens, j \in Tokens : CopyPutKey(k, j)
    \/ \E k \in Tokens : CopySetViewed(k)
    \/ \E k \in Tokens, secret \in SecretInputsTwo : CopySetSecret(k, secret)

\* C26: nothing done through the map GetAll returned changes the store: after
\* such a step the store holds the same keys and every record in it has the
\* fields it had.
C26_GetAllIsolates ==
    [][CopyStep =>
          /\ shares' = shares
          /\ \A k \in Tokens :
                shares[k] # NoObj => heap'[shares[k]] = heap[shares[k]]]_vars

\* C27: Viewed is transient: whenever no redeem is being served, no record in
\* the store is marked viewed.
C27_ViewedTransient ==
    (\A r \in Running : r.kind # "redeem") =>
        \A k \in Tokens : shares[k] # NoObj => ~heap[shares[k]].Viewed

\* No redeem is being served, a record that was marked viewed has left the
\* store with the redeem that marked it, and the store holds another record.
C27_Witness ==
    /\ \A r \in Running : r.kind # "redeem"
    /\ \E o \in Objs : heap[o].Viewed /\ fate[o] = "redeemed"
    /\ \E k \in Tokens : shares[k] # NoObj

\* C28: CleanupExpired is one step taken at one reading of the clock: the
\* state it leaves, the first any other store operation can observe, holds no
\* record whose deadline is before that reading, so no operation sees the
\* store with only part of the expired records removed.
C28_SweepAtomic ==
    [][out'.ev = "sweep" =>
          /\ now' = now
          /\ inflight' = inflight
          /\ \A k \in Tokens :
                shares'[k] # NoObj => ~(heap'[shares'[k]].ExpiresAt < now)]_vars

\* One sweep removed two expired records at once.
C28_Witness ==
    /\ out.ev = "sweep" /\ out.count = 2
    /\ \A k \in Tokens : shares[k] = NoObj
    /\ \A o \in Objs : fate[o] = "swept"

\* C29: redeem and the sweeper use the same expiry test.  When a redeem checks
\* the deadline of the record still stored under its handle, it takes the
\* Expired branch exactly when a sweep at that instant would remove the
\* record, which is exactly when the clock is strictly past expires_at; at
\* expires_at itself the redeem goes on towards the payload.
C29_SameExpiryPredicate ==
    [][\A r \in Running :
          (RedeemCheckExpired(r) /\ shares[r.tok] = r.ptr) =>
             /\ (inflight' = Continue(r, [r EXCEPT !.pc = "expdel"]))
                   <=> (r.tok \in ExpiredKeys(heap, shares, now))
             /\ (inflight' = Continue(r, [r EXCEPT !.pc = "expdel"]))
                   <=> (now > heap[r.ptr].ExpiresAt)
             /\ (inflight' = Continue(r, [r EXCEPT !.pc = "chkviewed"]))
                   <=> (now <= heap[r.ptr].ExpiresAt)]_vars

\* A redeem returned the payload at the very instant of the deadline, and no
\* sweep had removed the record.
C29_Witness ==
    /\ RedeemPaid /\ heap[out.req.ptr].ExpiresAt = now
    /\ fate[out.req.ptr] = "redeemed"

\* C30: for every accepted create request, whatever its expiration_hours, the
\* duration added to created_at is positive, so the stored expires_at is
\* strictly later than created_at: the multiplication by time.Hour never wraps
\* into a zero or negative duration.
C30_DeadlineAfterCreation ==
    CreatePaid =>
        /\ ~Negative(HoursDuration(ExpirationHours(out.req.body.ExpirationHours)))
        /\ HoursDuration(ExpirationHours(out.req.body.ExpirationHours)) # ToLimbs(0)
        /\ heap[out.req.ptr].ExpiresAt >= heap[out.req.ptr].CreatedAt

\* C31: redeem checks existence, then expiry, then viewed.  A redeem of a
\* handle with no record is answered 404 by its lookup and takes no further
\* step; a redeem whose lookup found a record that was past its deadline and
\* already marked viewed is answered 410 "Share has expired", never
\* "already viewed", and leaves no record under the handle.
C31_CheckOrder ==
    [][/\ \A token \in Tokens :
             (RedeemGet(token) /\ shares[token] = NoObj) =>
                /\ out'.ev = "response"
                /\ out'.res = ErrorRes(404, "Share not found or expired")
                /\ inflight' = inflight
       /\ (/\ out'.ev = "response" /\ out'.req.kind = "redeem"
           /\ out'.req.ptr # NoObj /\ out'.req.g.late /\ out'.req.seenV) =>
                /\ out'.res = ErrorRes(410, "Share has expired")
                /\ shares'[out'.req.tok] = NoObj]_vars

\* A redeem found a record that another redeem had marked viewed and whose
\* deadline had passed, and answered Expired.
C31_Witness ==
    /\ RedeemAnswered /\ out.req.ptr # NoObj
    /\ out.req.g.late /\ out.req.seenV
    /\ heap[out.req.ptr].Viewed /\ now > heap[out.req.ptr].ExpiresAt
    /\ out.res.error = "Share has expired"

\* ======================================================= the web frontend
\* JSON objects are functions from key to value.
\* A vault entry as handleFormSubmit stores it: the three fields are non-empty.
VaultEntries ==
    [ password : {"pw1"}, serviceName : {"Gmail"}, username : {"alice"}, url : {""} ]

\* the body createShareLink posts
CreateShareLinkBody(entry, hours) ==
    [ password |-> entry.password, service_name |-> entry.serviceName,
      username |-> entry.username, url |-> entry.url, expiration_hours |-> hours ]

\* the body the API reference documents
ApiBody(secret, service, username, hours) ==
    [ encrypted_password |-> secret, service_name |-> service,
      username |-> username, expiration_hours |-> hours ]

FrontendBodies ==
    {CreateShareLinkBody(e, h) : e \in VaultEntries, h \in HoursInputs}
ShareBodies ==
    FrontendBodies \cup
    {ApiBody(s, v, u, h) : s \in SecretInputs, v \in ServiceInputs,
                           u \in UserInputs, h \in HoursInputs}

\* the value under key, or the zero value of the Go field when the key is absent
Field(obj, key, zero) == IF key \in DOMAIN obj THEN obj[key] ELSE zero

\* json.NewDecoder(r.Body).Decode(&req): each field is filled from the key its
\* tag names, any other key is ignored
DecodeShareRequest(body) ==
    [ EncryptedPassword |-> Field(body, "encrypted_password", ""),
      ServiceName       |-> Field(body, "service_name", ""),
      Username          |-> Field(body, "username", ""),
      ExpirationHours   |-> Field(body, "expiration_hours", 0) ]

\* json.NewEncoder(w).Encode(response) of a ShareRetrieveResponse
EncodeRetrieveResponse(res) ==
    IF res.ViewedAt = NoTime
    THEN [ encrypted_password |-> res.EncryptedPassword,
           service_name |-> res.ServiceName, username |-> res.Username,
           created_at |-> res.CreatedAt ]
    ELSE [ encrypted_password |-> res.EncryptedPassword,
           service_name |-> res.ServiceName, username |-> res.Username,
           created_at |-> res.CreatedAt, viewed_at |-> res.ViewedAt ]

\* what showSharePage is called with
ShowSecret(password) == [errorMessage |-> "", password |-> password]
ShowError(msg) == [errorMessage |-> msg, password |-> ""]

\* loadSharedPassword on the answer of GET /api/share/:token
LoadSharedPassword(res) ==
    IF res.code # 200
    THEN IF res.code = 410
         THEN ShowError(IF res.error = "This share has already been viewed"
                        THEN res.error
                        ELSE "This share has already been viewed")
         ELSE IF res.code = 404
              THEN ShowError("Share not found or has expired")
              ELSE ShowError("Failed to load shared password")
    ELSE LET data == EncodeRetrieveResponse(res) IN
         IF Field(data, "password", "") = ""
         THEN ShowError("Invalid share data received")
         ELSE ShowSecret(data["password"])

\* ---- POST /api/share from its request body, and the redeem route
NextFrontend ==
    \/ \E body \in ShareBodies : CreateInvalid(DecodeShareRequest(body))
    \/ \E body \in ShareBodies : CreateGenFail(DecodeShareRequest(body))
    \/ \E body \in ShareBodies, token \in Tokens :
          CreateBegin(DecodeShareRequest(body), token)
    \/ \E r \in Running : CreateAdd(r)
    \/ \E token \in Tokens : RedeemGet(token)
    \/ \E r \in Running : RedeemCheckExpired(r)
    \/ \E r \in Running : RedeemCheckViewed(r)
    \/ \E r \in Running : RedeemMarkViewed(r)
    \/ \E r \in Running : RedeemDelete(r)

SpecFrontend == Init /\ [][NextFrontend]_vars

\* C32: no share-create request issued by createShareLink for a vault entry is
\* refused by the required-field validation: the handler never answers 400
\* "Missing required fields" to the request it decodes from such a body.
C32_FrontendCreateAccepted ==
    [][\A body \in FrontendBodies : ~CreateInvalid(DecodeShareRequest(body))]_vars

\* C33: whenever a redeem answers 200 with the payload (and so removes the
\* record), loadSharedPassword shows the secret of that answer to the user, not
\* an error message.
C33_ConsumedIsShown ==
    RedeemPaid =>
        LoadSharedPassword(out.res) = ShowSecret(out.res.EncryptedPassword)

\* A step of a redeem or delete request for handle h.
HandleStep(h) ==
    \/ RedeemGet(h)
    \/ DeleteGet(h)
    \/ \E r \in Running :
         /\ r.tok = h
         /\ \/ RedeemCheckExpired(r)
            \/ RedeemExpiredDelete(r)
            \/ RedeemCheckViewed(r)
            \/ RedeemMarkViewed(r)
            \/ RedeemDelete(r)
            \/ DeleteDelete(r)

\* C34: per-handle isolation.  No step of a redeem or delete request for a
\* handle h adds, removes or changes the record stored under another handle,
\* and while no record is stored under h such a step leaves the whole map and
\* every record as they were.
C34_HandleIsolation ==
    [][\A h \in Tokens :
          HandleStep(h) =>
             /\ \A k \in Tokens \ {h} :
                   /\ shares'[k] = shares[k]
                   /\ shares[k] # NoObj => heap'[shares[k]] = heap[shares[k]]
             /\ shares[h] = NoObj => (shares' = shares /\ heap' = heap)]_vars

\* A redeem of one handle has just returned its payload and removed its
\* record while an untouched record is stored under the other handle.
C34_Witness ==
    /\ RedeemPaid /\ shares[out.req.tok] = NoObj
    /\ fate[out.req.ptr] = "redeemed"
    /\ \E k \in Tokens \ {out.req.tok} :
          /\ shares[k] # NoObj /\ fate[shares[k]] = "live"
          /\ ~heap[shares[k]].Viewed

\* ================================================= the mutex, step by step
\* The same handlers with every ShareStore method split where the code splits
\* it: the call blocks in Lock()/RLock() until the mutex is granted, then the
\* body runs and the deferred Unlock()/RUnlock() releases the mutex as the
\* method returns.  Every request being served has a slot (id); the cleanup
\* worker is the goroutine SweeperId.  The history variables are not kept here.
SweeperId == 0
Slots == 1..MaxConc

\* the store calls of the handlers, by position, and the lock each takes
ReadCalls == {"get", "dget", "getall"}
WriteCalls == {"add", "expdel", "mark", "del", "ddel"}

\* a handler activation in slot i; locked: it is inside a store method and
\* holds the mutex
Call(kind, token, pc, ptr, i) ==
    Req(kind, token, pc, ptr, NoGhost) @@ [id |-> i, locked |-> FALSE]

Busy(i) == \E r \in Running : r.id = i

\* every request names the same handle
LockTokens == {"tokA"}

\* the create requests: valid, with a deadline an hour ahead or, the product
\* with time.Hour wrapping, a deadline that is in the past from the start (the
\* clock stands still in this specification)
LockHours == {1, 2562048}
ValidRequests ==
    [ EncryptedPassword : SecretInputs \ {""}, ServiceName : ServiceInputs \ {""},
      Username : UserInputs \ {""}, ExpirationHours : LockHours ]

\* POST /api/share: validated, token generated, ShareData built
ArriveCreate(i, req, token) ==
    /\ ~Busy(i)
    /\ Len(heap) < MaxObjs
    /\ heap' = Append(heap, NewShareData(req.EncryptedPassword, req.ServiceName,
                                         req.Username, req.ExpirationHours, now))
    /\ inflight' = Start(Call("create", token, "add", Len(heap) + 1, i))
    /\ out' = NoOut
    /\ UNCHANGED <<mu, now, shares, fate, served, issued, consumed, deleted>>

\* GET /api/share/:token
ArriveRedeem(i, token) ==
    /\ ~Busy(i)
    /\ inflight' = Start(Call("redeem", token, "get", NoObj, i))
    /\ out' = NoOut
    /\ UNCHANGED <<mu, now, heap, shares, fate, served, issued, consumed, deleted>>

\* DELETE /api/share/:token
ArriveDelete(i, token) ==
    /\ ~Busy(i)
    /\ inflight' = Start(Call("delete", token, "dget", NoObj, i))
    /\ out' = NoOut
    /\ UNCHANGED <<mu, now, heap, shares, fate, served, issued, consumed, deleted>>

\* a caller of store.GetAll()
ArriveGetAll(i) ==
    /\ ~Busy(i)
    /\ inflight' = Start(Call("getall", "", "getall", NoObj, i))
    /\ out' = NoOut
    /\ UNCHANGED <<mu, now, heap, shares, fate, served, issued, consumed, deleted>>

\* r calls s.mu.Lock() or s.mu.RLock() at the head of a store method; a writer
\* first waits for its turn among the writers
CallLock(r) ==
    /\ ~r.locked
    /\ \/ r.pc \in WriteCalls /\ CanLock(mu) /\ mu' = MuLock(mu, r.id)
       \/ r.pc \in ReadCalls /\ mu' = MuRLock(mu, r.id)
    /\ inflight' = Continue(r, [r EXCEPT !.locked = TRUE])
    /\ out' = NoOut
    /\ UNCHANGED <<now, heap, shares, fate, served, issued, consumed, deleted>>

\* Lock() returns: the readers have left
EnterLock(r) ==
    /\ r.locked /\ CanEnter(mu, r.id)
    /\ mu' = MuEnter(mu, r.id)
    /\ out' = NoOut
    /\ UNCHANGED <<now, heap, shares, inflight, fate, served, issued, consumed, deleted>>

\* Add, and the response of the create
AddBody(r) ==
    /\ r.pc = "add" /\ r.id \in mu.w
    /\ shares' = StoreAdd(shares, r.tok, r.ptr)
    /\ mu' = MuUnlock(mu, r.id)
    /\ inflight' = Finish(r)
    /\ out' = Answer(r, CreatedRes(r.tok, heap[r.ptr].ExpiresAt))
    /\ UNCHANGED <<now, heap, fate, served, issued, consumed, deleted>>

\* Get in GetShareHandler; 404 when absent
GetBody(r) ==
    /\ r.pc = "get" /\ r.id \in mu.r
    /\ mu' = MuRUnlock(mu, r.id)
    /\ LET got == StoreGet(shares, r.tok) IN
       IF ~got.exists
       THEN /\ inflight' = Finish(r)
            /\ out' = Answer(r, ErrorRes(404, "Share not found or expired"))
       ELSE /\ inflight' = Continue(r, [r EXCEPT !.pc = "chkexp", !.locked = FALSE,
                                                 !.ptr = got.data,
                                                 !.seenV = heap[got.data].Viewed,
                                                 !.seenVA = heap[got.data].ViewedAt])
            /\ out' = NoOut
    /\ UNCHANGED <<now, heap, shares, fate, served, issued, consumed, deleted>>

\* if time.Now().After(shareData.ExpiresAt)
CheckExpired(r) ==
    /\ r.pc = "chkexp"
    /\ inflight' = Continue(r, [r EXCEPT !.pc =
                      IF After(now, heap[r.ptr].ExpiresAt) THEN "expdel" ELSE "chkviewed"])
    /\ out' = NoOut
    /\ UNCHANGED <<mu, now, heap, shares, fate, served, issued, consumed, deleted>>

\* Delete on the expired branch; 410
ExpiredDeleteBody(r) ==
    /\ r.pc = "expdel" /\ r.id \in mu.w
    /\ shares' = StoreDelete(shares, r.tok)
    /\ mu' = MuUnlock(mu, r.id)
    /\ inflight' = Finish(r)
    /\ out' = Answer(r, ErrorRes(410, "Share has expired"))
    /\ UNCHANGED <<now, heap, fate, served, issued, consumed, deleted>>

\* if shareData.Viewed, read outside the mutex
CheckViewed(r) ==
    /\ r.pc = "chkviewed"
    /\ \E v \in RacyRead(r.seenV, heap[r.ptr].Viewed) :
         IF v
         THEN \E va \in RacyRead(r.seenVA, heap[r.ptr].ViewedAt) :
                /\ inflight' = Finish(r)
                /\ out' = Answer(r, AlreadyViewedRes(heap[r.ptr], va))
         ELSE /\ inflight' = Continue(r, [r EXCEPT !.pc = "mark"])
              /\ out' = NoOut
    /\ UNCHANGED <<mu, now, heap, shares, fate, served, issued, consumed, deleted>>

\* MarkViewed
MarkViewedBody(r) ==
    /\ r.pc = "mark" /\ r.id \in mu.w
    /\ heap' = StoreMarkViewed(heap, shares, r.tok, now)
    /\ mu' = MuUnlock(mu, r.id)
    /\ inflight' = Continue(r, [r EXCEPT !.pc = "del", !.locked = FALSE,
                                         !.seenV = heap'[r.ptr].Viewed,
                                         !.seenVA = heap'[r.ptr].ViewedAt])
    /\ out' = NoOut
    /\ UNCHANGED <<now, shares, fate, served, issued, consumed, deleted>>

\* the response built from the pointer, Delete, 200
DeleteBody(r) ==
    /\ r.pc = "del" /\ r.id \in mu.w
    /\ \E va \in RacyRead(r.seenVA, heap[r.ptr].ViewedAt) :
         out' = Answer(r, RetrievedRes(heap[r.ptr], va))
    /\ shares' = StoreDelete(shares, r.tok)
    /\ mu' = MuUnlock(mu, r.id)
    /\ inflight' = Finish(r)
    /\ UNCHANGED <<now, heap, fate, served, issued, consumed, deleted>>

\* Get in DeleteShareHandler; 404 when absent
DeleteGetBody(r) ==
    /\ r.pc = "dget" /\ r.id \in mu.r
    /\ mu' = MuRUnlock(mu, r.id)
    /\ IF ~StoreGet(shares, r.tok).exists
       THEN /\ inflight' = Finish(r)
            /\ out' = Answer(r, ErrorRes(404, "Share not found"))
       ELSE /\ inflight' = Continue(r, [r EXCEPT !.pc = "ddel", !.locked = FALSE,
                                                 !.ptr = StoreGet(shares, r.tok).data])
            /\ out' = NoOut
    /\ UNCHANGED <<now, heap, shares, fate, served, issued, consumed, deleted>>

\* Delete in DeleteShareHandler; 200
DeleteDeleteBody(r) ==
    /\ r.pc = "ddel" /\ r.id \in mu.w
    /\ shares' = StoreDelete(shares, r.tok)
    /\ mu' = MuUnlock(mu, r.id)
    /\ inflight' = Finish(r)
    /\ out' = Answer(r, DeletedRes)
    /\ UNCHANGED <<now, heap, fate, served, issued, consumed, deleted>>

\* GetAll
GetAllBody(r) ==
    /\ r.pc = "getall" /\ r.id \in mu.r
    /\ mu' = MuRUnlock(mu, r.id)
    /\ inflight' = Finish(r)
    /\ out' = Got(StoreGetAll(shares))
    /\ UNCHANGED <<now, heap, shares, fate, served, issued, consumed, deleted>>

\* the ticker fires and cleanupWorker calls CleanupExpired: s.mu.Lock()
SweepCall ==
    /\ SweeperId \notin mu.ann \cup mu.w
    /\ CanLock(mu)
    /\ mu' = MuLock(mu, SweeperId)
    /\ out' = NoOut
    /\ UNCHANGED <<now, heap, shares, inflight, fate, served, issued, consumed, deleted>>

\* Lock() returns in CleanupExpired
SweepEnter ==
    /\ CanEnter(mu, SweeperId)
    /\ mu' = MuEnter(mu, SweeperId)
    /\ out' = NoOut
    /\ UNCHANGED <<now, heap, shares, inflight, fate, served, issued, consumed, deleted>>

\* CleanupExpired
SweepBody ==
    /\ SweeperId \in mu.w
    /\ shares' = StoreCleanupExpired(heap, shares, now)
    /\ mu' = MuUnlock(mu, SweeperId)
    /\ out' = Swept(Cardinality(ExpiredKeys(heap, shares, now)))
    /\ UNCHANGED <<now, heap, inflight, fate, served, issued, consumed, deleted>>

\* a step of the request in slot i other than a writer taking its turn
Proceed(i) ==
    \E r \in Running :
        /\ r.id = i
        /\ \/ r.pc \in ReadCalls /\ CallLock(r)
           \/ EnterLock(r)
           \/ AddBody(r)
           \/ GetBody(r)
           \/ CheckExpired(r)
           \/ ExpiredDeleteBody(r)
           \/ CheckViewed(r)
           \/ MarkViewedBody(r)
           \/ DeleteBody(r)
           \/ DeleteGetBody(r)
           \/ DeleteDeleteBody(r)
           \/ GetAllBody(r)

NextLock ==
    \/ \E i \in Slots, req \in ValidRequests, token \in LockTokens : ArriveCreate(i, req, token)
    \/ \E i \in Slots, token \in LockTokens : ArriveRedeem(i, token)
    \/ \E i \in Slots, token \in LockTokens : ArriveDelete(i, token)
    \/ \E i \in Slots : ArriveGetAll(i)
    \/ \E r \in Running : CallLock(r)
    \/ \E r \in Running : EnterLock(r)
    \/ \E r \in Running : AddBody(r)
    \/ \E r \in Running : GetBody(r)
    \/ \E r \in Running : CheckExpired(r)
    \/ \E r \in Running : ExpiredDeleteBody(r)
    \/ \E r \in Running : CheckViewed(r)
    \/ \E r \in Running : MarkViewedBody(r)
    \/ \E r \in Running : DeleteBody(r)
    \/ \E r \in Running : DeleteGetBody(r)
    \/ \E r \in Running : DeleteDeleteBody(r)
    \/ \E r \in Running : GetAllBody(r)
    \/ SweepCall
    \/ SweepEnter
    \/ SweepBody

\* The scheduler runs every goroutine that can take a step, and the inner
\* mutex that orders the writers hands over to a waiter that keeps finding it
\* free (sync.Mutex does not starve a waiter).
FairnessLock ==
    /\ \A i \in Slots : WF_vars(Proceed(i))
    /\ \A i \in Slots :
          SF_vars(\E r \in Running : r.id = i /\ r.pc \in WriteCalls /\ CallLock(r))
    /\ WF_vars(SweepEnter)
    /\ WF_vars(SweepBody)

SpecLock == Init /\ [][NextLock]_vars /\ FairnessLock

\* The goroutines that are inside Lock() or RLock() or hold the mutex.
InMutex == mu.w \cup mu.r \cup mu.ann \cup mu.rq

\* C35: no deadlock.  The mutex has at most one writer and no reader beside
\* a writer, and a goroutine that is not inside a store method neither holds
\* nor waits for the mutex; every request that is being served is eventually
\* answered, and every CleanupExpired call of the sweeper returns, whatever
\* the other requests and the sweeper do meanwhile.
C35_EveryCallCompletes ==
    /\ [](/\ Cardinality(mu.w) <= 1 /\ Cardinality(mu.ann) <= 1
          /\ mu.w # {} => (mu.r = {} /\ mu.ann = {})
          /\ \A r \in Running : ~r.locked => r.id \notin InMutex)
    /\ \A i \in Slots : Busy(i) ~> ~Busy(i)
    /\ (SweeperId \in InMutex) ~> (SweeperId \notin InMutex)

\* The sweeper is inside CleanupExpired, one request is blocked in RLock()
\* behind it and every other request waits for its turn to write.
C35_Witness ==
    /\ SweeperId \in mu.w
    /\ mu.rq # {}
    /\ \A i \in Slots \ mu.rq :
          \E r \in Running : r.id = i /\ ~r.locked /\ r.pc \in WriteCalls

\* ============================================== tokens as strings: lengths
TokenBytes == 32                    \* generateSecureToken(32)
LogPrefix == 10                     \* token[:10]

\* the variant packs four bytes into one character
MutEncodedLenPacked(n) == (n + 3) \div 4
\* len(base64.URLEncoding.EncodeToString(bytes)) for n bytes: padded to a
\* multiple of four characters
EncodedLen(n) == ((n + 2) \div 3) * 4

\* the token strings a request path can carry: the generated ones, one shorter
\* than the logged prefix, and one that is long but was never generated
PathInputs == Tokens \cup {"abc", "0123456789abcdef"}

\* len(token): the elements of Tokens stand for values generateSecureToken
\* returned, any other token is the string itself
TokenLen(token) ==
    IF token \in Tokens THEN EncodedLen(TokenBytes) ELSE Len(token)

\* token[:n] panics when n exceeds len(token)
SlicePanics(token, n) == n > TokenLen(token)

\* s.shares[token] for any string: a key no Add ever stored is absent
PathGet(s, token) ==
    IF token \in DOMAIN s THEN StoreGet(s, token)
    ELSE [data |-> NoObj, exists |-> FALSE]

\* GET /api/share/:token with a token that was never generated
RedeemPath(token) ==
    /\ BagCardinality(inflight) < MaxConc
    /\ token \notin Tokens
    /\ ~PathGet(shares, token).exists
    /\ out' = Answer(Req("redeem", token, "done", NoObj, NoGhost),
                     ErrorRes(404, "Share not found or expired"))
    /\ UNCHANGED <<mu, now, heap, shares, inflight, fate, served, issued, consumed, deleted>>

\* DELETE /api/share/:token with a token that was never generated
DeletePath(token) ==
    /\ BagCardinality(inflight) < MaxConc
    /\ token \notin Tokens
    /\ ~PathGet(shares, token).exists
    /\ out' = Answer(Req("delete", token, "done", NoObj, NoGhost),
                     ErrorRes(404, "Share not found"))
    /\ UNCHANGED <<mu, now, heap, shares, inflight, fate, served, issued, consumed, deleted>>

NextTokens ==
    \/ \E req \in ShareRequests : CreateInvalid(req)
    \/ \E req \in ShareRequests : CreateGenFail(req)
    \/ \E req \in ShareRequests, token \in Tokens : CreateBegin(req, token)
    \/ \E r \in Running : CreateAdd(r)
    \/ \E token \in Tokens : RedeemGet(token)
    \/ \E token \in PathInputs : RedeemPath(token)
    \/ \E r \in Running : RedeemCheckExpired(r)
    \/ \E r \in Running : RedeemCheckViewed(r)
    \/ \E r \in Running : RedeemMarkViewed(r)
    \/ \E r \in Running : RedeemDelete(r)
    \/ \E token \in Tokens : DeleteGet(token)
    \/ \E token \in PathInputs : DeletePath(token)
    \/ \E r \in Running : DeleteDelete(r)

SpecTokens == Init /\ [][NextTokens]_vars

\* The step just taken ended a handler on the path that logs token[:10].
LogsToken ==
    /\ out.ev = "response" /\ out.res.code = 200
    /\ out.req.kind \in {"create", "redeem", "delete"}

\* C36: every key in the store is 44 characters long, and whenever a create,
\* a successful redeem or a successful delete logs token[:10], the slice is
\* within the token: no request token, however short, makes a handler panic.
C36_LogSliceInBounds ==
    /\ \A k \in DOMAIN shares : shares[k] # NoObj => TokenLen(k) = 44
    /\ LogsToken => ~SlicePanics(out.req.tok, LogPrefix)
    /\ (out.ev = "response" /\ TokenLen(out.req.tok) < LogPrefix) => out.res.code # 200

\* A DELETE has just been answered 200 and logged the prefix of its token
\* while another record is still stored.
C36_Witness ==
    /\ LogsToken /\ out.req.kind = "delete"
    /\ TokenLen(out.req.tok) >= LogPrefix
    /\ \E k \in Tokens : shares[k] # NoObj

\* C37: the frame of MarkViewed.  A MarkViewed call never changes the set of
\* keys or the number of records; on a token that is not in the store it
\* changes no record at all; on a token that is in the store it sets Viewed
\* and ViewedAt of the record under that token and leaves the payload,
\* created_at and expires_at of that record and every other record as they
\* were.
C37_MarkViewedFrame ==
    [][\A r \in Running :
          RedeemMarkViewed(r) =>
             /\ shares' = shares
             /\ Len(heap') = Len(heap)
             /\ shares[r.tok] = NoObj => heap' = heap
             /\ \A o \in Objs :
                   IF o = shares[r.tok]
                   THEN /\ heap'[o].Viewed /\ heap'[o].ViewedAt = now
                        /\ heap'[o].EncryptedPassword = heap[o].EncryptedPassword
                        /\ heap'[o].ServiceName = heap[o].ServiceName
                        /\ heap'[o].Username = heap[o].Username
                        /\ heap'[o].CreatedAt = heap[o].CreatedAt
                        /\ heap'[o].ExpiresAt = heap[o].ExpiresAt
                        /\ DOMAIN heap'[o] = DOMAIN heap[o]
                   ELSE heap'[o] = heap[o]]_vars

\* Two redeems have returned from MarkViewed: one marked the record stored
\* under its token, the other found its token gone and marked nothing.
C37_Witness ==
    \E r \in Running, q \in Running :
        /\ r.kind = "redeem" /\ r.pc = "del"
        /\ shares[r.tok] = r.ptr /\ heap[r.ptr].Viewed
        /\ heap[r.ptr].EncryptedPassword # ""
        /\ q.kind = "redeem" /\ q.pc = "del" /\ q.tok # r.tok
        /\ shares[q.tok] = NoObj /\ ~heap[q.ptr].Viewed

====
